---- MODULE Spec2Model ----
(***************************************************************************)
(* Retirement planner: the year-by-year projector (calculations.py) and    *)
(* the tax estimator (taxes.py).                                           *)
(*                                                                         *)
(* Amounts and rates are Python floats in the source.  They are modelled   *)
(* as exact rationals <<numerator, denominator>> in lowest terms with a    *)
(* positive denominator, so equalities are exact and no rounding is        *)
(* modelled.                                                               *)
(***************************************************************************)
EXTENDS Integers, Sequences, FiniteSets, TLC

VARIABLES
    pc,                     \* "new", "built", "loop", "done", "raised"; "tax_in", "tax_out"
    err,                    \* the exception that ended the run, "" when none
    kwargs,                 \* keyword arguments given to ProjectionConfig(...)
    config,                 \* the ProjectionConfig instance
    age,                    \* loop variable of run_projection
    balance_401k,
    balance_brokerage,
    is_retirement_year,
    post_growth_401k,
    post_growth_brokerage,
    withdrawal_total,
    withdrawal_401k,
    withdrawal_brokerage,
    social_security_income,
    rows,                   \* rows appended so far
    ti,                     \* TaxInput handed to compute_taxes
    tr,                     \* TaxResult it returned
    ti_prev,                \* the TaxInput of the previous call
    tr_prev                 \* the TaxResult of the previous call

projVars == <<pc, err, kwargs, config, age, balance_401k, balance_brokerage,
              is_retirement_year, post_growth_401k, post_growth_brokerage,
              withdrawal_total, withdrawal_401k, withdrawal_brokerage,
              social_security_income, rows>>
taxVars == <<ti, tr, ti_prev, tr_prev>>
vars == <<projVars, taxVars>>

(***************************************************************************)
(* Exact arithmetic.                                                       *)
(***************************************************************************)
Abs(x) == IF x < 0 THEN -x ELSE x

RECURSIVE GCD(_, _)
GCD(a, b) == IF b = 0 THEN a ELSE GCD(b, a % b)

Rat(n, d) ==
    LET g == GCD(Abs(n), Abs(d))
        s == IF d < 0 THEN -1 ELSE 1
    IN  <<s * (n \div g), s * (d \div g)>>

RInt(n) == <<n, 1>>
Zero == <<0, 1>>
One == <<1, 1>>

LCM(a, b) == (a \div GCD(a, b)) * b

RAdd(a, b) ==
    LET l == LCM(a[2], b[2])
    IN  Rat(a[1] * (l \div a[2]) + b[1] * (l \div b[2]), l)

RNeg(a) == <<-a[1], a[2]>>

RSub(a, b) == RAdd(a, RNeg(b))

RMul(a, b) ==
    LET g1 == GCD(Abs(a[1]), b[2])
        g2 == GCD(Abs(b[1]), a[2])
    IN  Rat((a[1] \div g1) * (b[1] \div g2), (a[2] \div g2) * (b[2] \div g1))

RDiv(a, b) == RMul(a, IF b[1] < 0 THEN <<-b[2], -b[1]>> ELSE <<b[2], b[1]>>)

RLeq(a, b) ==
    LET l == LCM(a[2], b[2])
    IN  a[1] * (l \div a[2]) <= b[1] * (l \div b[2])

RLt(a, b) == ~RLeq(b, a)

RMin(a, b) == IF RLeq(a, b) THEN a ELSE b

RMax(a, b) == IF RLeq(b, a) THEN a ELSE b

RECURSIVE RPow(_, _)
RPow(a, n) == IF n = 0 THEN One ELSE RMul(a, RPow(a, n - 1))

(***************************************************************************)
(* taxes.py                                                                *)
(***************************************************************************)
FEDERAL_BRACKETS_SINGLE ==
    << <<RInt(0), Rat(10, 100)>>,
       <<RInt(11600), Rat(12, 100)>>,
       <<RInt(47150), Rat(22, 100)>>,
       <<RInt(100525), Rat(24, 100)>>,
       <<RInt(191950), Rat(32, 100)>>,
       <<RInt(243725), Rat(35, 100)>>,
       <<RInt(609350), Rat(37, 100)>> >>

FEDERAL_BRACKETS_MARRIED ==
    << <<RInt(0), Rat(10, 100)>>,
       <<RInt(23200), Rat(12, 100)>>,
       <<RInt(94300), Rat(22, 100)>>,
       <<RInt(201050), Rat(24, 100)>>,
       <<RInt(383900), Rat(32, 100)>>,
       <<RInt(487450), Rat(35, 100)>>,
       <<RInt(731200), Rat(37, 100)>> >>

STANDARD_DEDUCTION == [single |-> RInt(14600), married |-> RInt(29200)]

TaxInputFields ==
    {"filing_status", "state_rate", "ordinary_income", "capital_gains_income"}

\* A dataclass __init__ takes its declared fields as keywords and raises
\* TypeError on any other keyword.
DataclassAccepts(fields, kw) == DOMAIN kw \subseteq fields

TaxInput_init(kw) == DataclassAccepts(TaxInputFields, kw)

_get_brackets(filing_status) ==
    IF filing_status = "married" THEN FEDERAL_BRACKETS_MARRIED
    ELSE FEDERAL_BRACKETS_SINGLE

\* the bracket amount without the cap at the next threshold
AmountInBracket_Uncapped(taxable_income, brackets, i) ==
    RMax(Zero, RSub(taxable_income, brackets[i][1]))

\* amount_in_bracket of the loop body, for the bracket at index i (1-based)
AmountInBracket(taxable_income, brackets, i) ==
    IF i + 1 <= Len(brackets)
    THEN RMax(Zero, RSub(RMin(taxable_income, brackets[i + 1][1]), brackets[i][1]))
    ELSE RMax(Zero, RSub(taxable_income, brackets[i][1]))

\* the for loop of _apply_ordinary_brackets from index i on, tax accumulated
RECURSIVE BracketLoop(_, _, _, _)
BracketLoop(taxable_income, brackets, i, tax) ==
    IF i > Len(brackets) THEN tax
    ELSE LET amount_in_bracket == AmountInBracket(taxable_income, brackets, i)
         IN  IF RLeq(amount_in_bracket, Zero)
             THEN BracketLoop(taxable_income, brackets, i + 1, tax)
             ELSE BracketLoop(taxable_income, brackets, i + 1,
                              RAdd(tax, RMul(amount_in_bracket, brackets[i][2])))

_apply_ordinary_brackets(taxable_income, brackets) ==
    IF RLeq(taxable_income, Zero) THEN Zero
    ELSE BracketLoop(taxable_income, brackets, 1, Zero)

NormalFilingStatus(fs) == IF fs \in {"single", "married"} THEN fs ELSE "single"

TaxableOrdinary(ordinary_income, std_deduction) ==
    RMax(Zero, RSub(ordinary_income, std_deduction))

FederalCapitalTax(capital_gains_income) ==
    RMul(RMax(Zero, capital_gains_income), Rat(15, 100))

\* the state tax without the clamp on total_income
StateTax_IncomeNotClamped(total_income, state_rate) ==
    RMul(total_income, RMax(Zero, state_rate))

\* the state tax without the clamp on state_rate
StateTax_RateNotClamped(total_income, state_rate) ==
    RMul(RMax(Zero, total_income), state_rate)

StateTax(total_income, state_rate) ==
    RMul(RMax(Zero, total_income), RMax(Zero, state_rate))

EffectiveRate(total_tax, total_income) ==
    IF RLt(Zero, total_income) THEN RDiv(total_tax, total_income) ELSE Zero

compute_taxes(t) ==
    LET filing_status == NormalFilingStatus(t.filing_status)
        brackets == _get_brackets(filing_status)
        std_deduction == STANDARD_DEDUCTION[filing_status]
        taxable_ordinary == TaxableOrdinary(t.ordinary_income, std_deduction)
        federal_ordinary_tax == _apply_ordinary_brackets(taxable_ordinary, brackets)
        federal_capital_tax == FederalCapitalTax(t.capital_gains_income)
        federal_tax == RAdd(federal_ordinary_tax, federal_capital_tax)
        total_income == RAdd(t.ordinary_income, t.capital_gains_income)
        state_tax == StateTax(total_income, t.state_rate)
        total_tax == RAdd(federal_tax, state_tax)
        effective_rate == EffectiveRate(total_tax, total_income)
    IN  [total_tax |-> total_tax,
         effective_rate |-> effective_rate,
         federal_tax |-> federal_tax,
         state_tax |-> state_tax,
         ordinary_income_taxed |-> taxable_ordinary,
         capital_gains_taxed |-> t.capital_gains_income]

estimate_brokerage_gains(withdrawal, gain_fraction) ==
    IF RLeq(withdrawal, Zero) THEN Zero
    ELSE RMul(withdrawal, RMax(Zero, RMin(One, gain_fraction)))

DEFAULT_GAIN_FRACTION == Rat(1, 2)

(***************************************************************************)
(* calculations.py                                                         *)
(***************************************************************************)
ProjectionConfigFields ==
    {"current_age", "retire_age", "end_age",
     "current_401k_balance", "current_brokerage_balance",
     "annual_401k_contribution", "annual_brokerage_contribution",
     "real_return_401k", "real_return_brokerage",
     "swr", "filing_status", "state_tax_rate", "withdrawal_order"}

\* fields declared without a default must be given
ProjectionConfigRequired == {"current_age", "retire_age"}

ConfigDefaults ==
    [end_age |-> 100,
     current_401k_balance |-> Zero,
     current_brokerage_balance |-> Zero,
     annual_401k_contribution |-> Zero,
     annual_brokerage_contribution |-> Zero,
     real_return_401k |-> Rat(5, 100),
     real_return_brokerage |-> Rat(5, 100),
     swr |-> Rat(4, 100),
     filing_status |-> "single",
     state_tax_rate |-> Rat(5, 100),
     withdrawal_order |-> "brokerage_first"]

ProjectionConfig_accepts(kw) ==
    /\ DataclassAccepts(ProjectionConfigFields, kw)
    /\ ProjectionConfigRequired \subseteq DOMAIN kw

ProjectionConfig_fields(kw) ==
    [f \in ProjectionConfigFields |->
        IF f \in DOMAIN kw THEN kw[f] ELSE ConfigDefaults[f]]

SOCIAL_SECURITY_MAX_AGE_62 == 41000
SOCIAL_SECURITY_COLA == Rat(25, 1000)
SOCIAL_SECURITY_AGE == 62

IsRetirementYear(cfg, a) == a >= cfg.retire_age

PreGrowth(balance, contribution, retired) ==
    IF ~retired THEN RAdd(balance, contribution) ELSE balance

PostGrowth(pre_growth, real_return) == RMul(pre_growth, RAdd(One, real_return))

\* the benefit paid from 62 on whether retired or not
SocialSecurityIncome_AnyYear(retired, a) ==
    IF a >= SOCIAL_SECURITY_AGE
    THEN RMul(RInt(SOCIAL_SECURITY_MAX_AGE_62),
              RPow(RAdd(One, SOCIAL_SECURITY_COLA), a - SOCIAL_SECURITY_AGE))
    ELSE Zero

SocialSecurityIncome(retired, a) ==
    IF retired /\ a >= SOCIAL_SECURITY_AGE
    THEN RMul(RInt(SOCIAL_SECURITY_MAX_AGE_62),
              RPow(RAdd(One, SOCIAL_SECURITY_COLA), a - SOCIAL_SECURITY_AGE))
    ELSE Zero

WithdrawalTotal(pg_401k, pg_brokerage, swr) == RMul(RAdd(pg_401k, pg_brokerage), swr)

\* the brokerage share with the two orders exchanged
FromBrokerage_Swapped(order, total, pg_401k, pg_brokerage) ==
    IF order = "brokerage_first" THEN RSub(total, RMin(total, pg_401k))
    ELSE RMin(total, pg_brokerage)

FromBrokerage(order, total, pg_401k, pg_brokerage) ==
    IF order = "brokerage_first" THEN RMin(total, pg_brokerage)
    ELSE RSub(total, RMin(total, pg_401k))

\* the 401k share with the remainder capped at the 401k balance
From401k_Capped(order, total, pg_401k, pg_brokerage) ==
    IF order = "brokerage_first"
    THEN RMin(RSub(total, RMin(total, pg_brokerage)), pg_401k)
    ELSE RMin(total, pg_401k)

From401k(order, total, pg_401k, pg_brokerage) ==
    IF order = "brokerage_first" THEN RSub(total, RMin(total, pg_brokerage))
    ELSE RMin(total, pg_401k)

\* the keyword arguments of the TaxInput(...) call in run_projection
TaxInputCall(cfg, w_401k, w_brokerage, ss) ==
    [filing_status |-> cfg.filing_status,
     state_rate |-> cfg.state_tax_rate,
     ordinary_income |-> w_401k,
     capital_gains_income |-> estimate_brokerage_gains(w_brokerage, DEFAULT_GAIN_FRACTION),
     social_security_income |-> ss]

NoTax == [total_tax |-> Zero, effective_rate |-> Zero, federal_tax |-> Zero, state_tax |-> Zero]

Row(a, cfg, retired, b_401k, b_brokerage, w_total, w_401k, w_brokerage, ss, tax) ==
    [age |-> a,
     year_index |-> a - cfg.current_age,
     is_retirement_year |-> retired,
     balance_401k |-> b_401k,
     balance_brokerage |-> b_brokerage,
     total_balance |-> RAdd(b_401k, b_brokerage),
     withdrawal_total |-> w_total,
     withdrawal_401k |-> w_401k,
     withdrawal_brokerage |-> w_brokerage,
     social_security_income |-> ss,
     tax_total |-> tax.total_tax,
     net_income_after_tax |-> RSub(RAdd(w_total, ss), tax.total_tax),
     tax_effective_rate |-> tax.effective_rate,
     federal_tax |-> tax.federal_tax,
     state_tax |-> tax.state_tax]

NoConfig == "None"
NoTaxInput == [filing_status |-> "None"]
NoTaxResult == [total_tax |-> "None"]

\* ProjectionConfig(**kwargs)
ProjectionConfig_init ==
    /\ pc = "new"
    /\ IF ProjectionConfig_accepts(kwargs)
       THEN /\ config' = ProjectionConfig_fields(kwargs)
            /\ pc' = "built"
            /\ err' = ""
       ELSE /\ config' = NoConfig
            /\ pc' = "raised"
            /\ err' = "TypeError: ProjectionConfig"
    /\ UNCHANGED <<kwargs, age, balance_401k, balance_brokerage, is_retirement_year,
                   post_growth_401k, post_growth_brokerage, withdrawal_total,
                   withdrawal_401k, withdrawal_brokerage, social_security_income,
                   rows, taxVars>>

\* run_projection up to the loop: years, the starting balances, rows = []
run_projection_begin ==
    /\ pc = "built"
    /\ pc' = "loop"
    /\ age' = config.current_age
    /\ balance_401k' = config.current_401k_balance
    /\ balance_brokerage' = config.current_brokerage_balance
    /\ rows' = <<>>
    /\ UNCHANGED <<err, kwargs, config, is_retirement_year, post_growth_401k,
                   post_growth_brokerage, withdrawal_total, withdrawal_401k,
                   withdrawal_brokerage, social_security_income, taxVars>>

\* one iteration of the loop for an age before retire_age
AccumulationYear ==
    /\ pc = "loop"
    /\ age <= config.end_age
    /\ ~IsRetirementYear(config, age)
    /\ LET pg_401k == PostGrowth(PreGrowth(balance_401k, config.annual_401k_contribution, FALSE),
                                 config.real_return_401k)
           pg_brokerage == PostGrowth(PreGrowth(balance_brokerage,
                                                config.annual_brokerage_contribution, FALSE),
                                      config.real_return_brokerage)
           ss == SocialSecurityIncome(FALSE, age)
       IN  /\ is_retirement_year' = FALSE
           /\ post_growth_401k' = pg_401k
           /\ post_growth_brokerage' = pg_brokerage
           /\ withdrawal_total' = Zero
           /\ withdrawal_401k' = Zero
           /\ withdrawal_brokerage' = Zero
           /\ social_security_income' = ss
           /\ balance_401k' = pg_401k
           /\ balance_brokerage' = pg_brokerage
           /\ rows' = Append(rows, Row(age, config, FALSE, pg_401k, pg_brokerage,
                                       Zero, Zero, Zero, ss, NoTax))
           /\ age' = age + 1
    /\ UNCHANGED <<pc, err, kwargs, config, taxVars>>

\* one iteration of the loop for an age from retire_age on; the TaxInput(...)
\* call raises when it is given a keyword TaxInput does not declare, after the
\* withdrawal and the balances of the year have been assigned
RetirementYear ==
    /\ pc = "loop"
    /\ age <= config.end_age
    /\ IsRetirementYear(config, age)
    /\ LET pg_401k == PostGrowth(PreGrowth(balance_401k, config.annual_401k_contribution, TRUE),
                                 config.real_return_401k)
           pg_brokerage == PostGrowth(PreGrowth(balance_brokerage,
                                                config.annual_brokerage_contribution, TRUE),
                                      config.real_return_brokerage)
           ss == SocialSecurityIncome(TRUE, age)
           w_total == WithdrawalTotal(pg_401k, pg_brokerage, config.swr)
           w_401k == From401k(config.withdrawal_order, w_total, pg_401k, pg_brokerage)
           w_brokerage == FromBrokerage(config.withdrawal_order, w_total, pg_401k, pg_brokerage)
           b_401k == RSub(pg_401k, w_401k)
           b_brokerage == RSub(pg_brokerage, w_brokerage)
           call == TaxInputCall(config, w_401k, w_brokerage, ss)
       IN  /\ is_retirement_year' = TRUE
           /\ post_growth_401k' = pg_401k
           /\ post_growth_brokerage' = pg_brokerage
           /\ withdrawal_total' = w_total
           /\ withdrawal_401k' = w_401k
           /\ withdrawal_brokerage' = w_brokerage
           /\ social_security_income' = ss
           /\ balance_401k' = b_401k
           /\ balance_brokerage' = b_brokerage
           /\ IF TaxInput_init(call)
              THEN /\ rows' = Append(rows, Row(age, config, TRUE, b_401k, b_brokerage,
                                               w_total, w_401k, w_brokerage, ss,
                                               compute_taxes(call)))
                   /\ age' = age + 1
                   /\ UNCHANGED <<pc, err>>
              ELSE /\ pc' = "raised"
                   /\ err' = "TypeError: TaxInput"
                   /\ UNCHANGED <<rows, age>>
    /\ UNCHANGED <<kwargs, config, taxVars>>

\* the loop is over: the rows are returned as the table
Return ==
    /\ pc = "loop"
    /\ age > config.end_age
    /\ pc' = "done"
    /\ UNCHANGED <<err, kwargs, config, age, balance_401k, balance_brokerage,
                   is_retirement_year, post_growth_401k, post_growth_brokerage,
                   withdrawal_total, withdrawal_401k, withdrawal_brokerage,
                   social_security_income, rows, taxVars>>

(***************************************************************************)
(* The projector run on a bounded family of configurations.                *)
(***************************************************************************)
StartAge == 60
Span == 4

Ages == (StartAge - 1)..(StartAge + Span + 1)
Balances == {<<Zero, Zero>>, <<RInt(100), Zero>>, <<Zero, RInt(100)>>, <<RInt(100), RInt(300)>>}
Contributions == {<<Zero, Zero>>, <<RInt(50), RInt(20)>>}
Returns == {<<Zero, Zero>>, <<Rat(1, 2), RInt(-1)>>, <<Rat(-1, 2), Rat(1, 2)>>}
Swrs == {Zero, Rat(1, 2), One, RInt(2)}
WithdrawalOrders == {"brokerage_first", "tax_deferred_first"}
StartAges == {SOCIAL_SECURITY_AGE, SOCIAL_SECURITY_AGE + 5}

FullKwargs(cur, ret, end, bal, con, rr, swr, order) ==
    [current_age |-> cur, retire_age |-> ret, end_age |-> end,
     current_401k_balance |-> bal[1], current_brokerage_balance |-> bal[2],
     annual_401k_contribution |-> con[1], annual_brokerage_contribution |-> con[2],
     real_return_401k |-> rr[1], real_return_brokerage |-> rr[2],
     swr |-> swr, filing_status |-> "married", state_tax_rate |-> Rat(5, 100),
     withdrawal_order |-> order]

Without(kw, names) == [f \in (DOMAIN kw \ names) |-> kw[f]]

\* the keyword sets callers pass: every field; every field and
\* social_security_start_age, as app.py does; the tax fields and the
\* withdrawal order left to their defaults
KwargsOf(full, a) ==
    {full,
     full @@ [social_security_start_age |-> a],
     Without(full, {"filing_status", "state_tax_rate", "withdrawal_order"})}

NoLocals ==
    /\ err = ""
    /\ config = NoConfig
    /\ age = 0
    /\ balance_401k = Zero
    /\ balance_brokerage = Zero
    /\ is_retirement_year = FALSE
    /\ post_growth_401k = Zero
    /\ post_growth_brokerage = Zero
    /\ withdrawal_total = Zero
    /\ withdrawal_401k = Zero
    /\ withdrawal_brokerage = Zero
    /\ social_security_income = Zero
    /\ rows = <<>>

Init ==
    /\ pc = "new"
    /\ \E cur \in StartAge..(StartAge + 1), ret \in Ages, end \in (StartAge - 1)..(StartAge + Span),
          bal \in Balances, con \in Contributions, rr \in Returns, swr \in Swrs,
          order \in WithdrawalOrders, a \in StartAges :
          kwargs \in KwargsOf(FullKwargs(cur, ret, end, bal, con, rr, swr, order), a)
    /\ NoLocals
    /\ ti = NoTaxInput
    /\ tr = NoTaxResult
    /\ ti_prev = NoTaxInput
    /\ tr_prev = NoTaxResult

Next ==
    \/ ProjectionConfig_init
    \/ run_projection_begin
    \/ AccumulationYear
    \/ RetirementYear
    \/ Return

Spec == Init /\ [][Next]_vars

(***************************************************************************)
(* The tax estimator called on a bounded family of inputs, each call       *)
(* followed by a call that differs in ordinary_income alone.               *)
(***************************************************************************)
OrdinaryIncomes ==
    {RInt(n) : n \in {-20000, 0, 10000, 14600, 20000, 26200, 29200, 40000, 60000,
                      61750, 120000, 206550, 260000, 650000, 800000}}
CapitalGains == {RInt(-200000), Zero, RInt(30000)}
StateRates == {Rat(-5, 100), Zero, Rat(5, 100)}
FilingStatuses == {"single", "married", "head_of_household"}

TaxInputs ==
    [filing_status : FilingStatuses, state_rate : StateRates,
     ordinary_income : OrdinaryIncomes, capital_gains_income : CapitalGains]

InitTax ==
    /\ pc = "tax_in"
    /\ kwargs = NoConfig
    /\ NoLocals
    /\ ti \in TaxInputs
    /\ tr = NoTaxResult
    /\ ti_prev = NoTaxInput
    /\ tr_prev = NoTaxResult

\* compute_taxes(ti)
ComputeTaxes ==
    /\ pc = "tax_in"
    /\ TaxInput_init(ti)
    /\ tr' = compute_taxes(ti)
    /\ pc' = "tax_out"
    /\ UNCHANGED <<err, kwargs, config, age, balance_401k, balance_brokerage,
                   is_retirement_year, post_growth_401k, post_growth_brokerage,
                   withdrawal_total, withdrawal_401k, withdrawal_brokerage,
                   social_security_income, rows, ti, ti_prev, tr_prev>>

\* the caller builds the next TaxInput, changing ordinary_income alone
NextTaxInput ==
    /\ pc = "tax_out"
    /\ \E o \in OrdinaryIncomes : ti' = [ti EXCEPT !.ordinary_income = o]
    /\ ti_prev' = ti
    /\ tr_prev' = tr
    /\ tr' = NoTaxResult
    /\ pc' = "tax_in"
    /\ UNCHANGED <<err, kwargs, config, age, balance_401k, balance_brokerage,
                   is_retirement_year, post_growth_401k, post_growth_brokerage,
                   withdrawal_total, withdrawal_401k, withdrawal_brokerage,
                   social_security_income, rows>>

NextTax == ComputeTaxes \/ NextTaxInput

SpecTax == InitTax /\ [][NextTax]_vars

(***************************************************************************)
(* Properties of the projector (checked under Spec).                       *)
(***************************************************************************)
\* a ProjectionConfig instance exists
HasConfig == pc \in {"built", "loop", "done"} \/ (pc = "raised" /\ err = "TypeError: TaxInput")

WellFormed(cfg) == cfg.current_age <= cfg.retire_age /\ cfg.retire_age <= cfg.end_age

\* the run got as far as the withdrawal of a retirement year
InRetirementYear == HasConfig /\ is_retirement_year

\* the withdrawal exceeded what the first account held, so the other was drawn on
Spillover ==
    IF config.withdrawal_order = "brokerage_first"
    THEN RLt(post_growth_brokerage, withdrawal_total)
    ELSE RLt(post_growth_401k, withdrawal_total)

\* C1: for every well-formed config (current_age <= retire_age <= end_age)
\* run_projection completes without raising; every retirement year builds
\* its TaxInput and obtains a TaxResult.
C1_RunCompletes == (HasConfig /\ WellFormed(config)) => pc # "raised"

\* C2: account balances are never negative, for any swr >= 0 and both
\* withdrawal orders: neither the running balances nor the balances of an
\* emitted record, because no account is drawn on for more than its
\* post-growth balance.
C2_BalancesNeverNegative ==
    (HasConfig /\ WellFormed(config)) =>
        /\ RLeq(Zero, balance_401k)
        /\ RLeq(Zero, balance_brokerage)
        /\ RLeq(withdrawal_401k, post_growth_401k)
        /\ RLeq(withdrawal_brokerage, post_growth_brokerage)
        /\ \A i \in 1..Len(rows) :
              RLeq(Zero, rows[i].balance_401k) /\ RLeq(Zero, rows[i].balance_brokerage)

\* C3: for a well-formed config (so current_age <= end_age), a finished run
\* has emitted exactly end_age - current_age + 1 records, one per age from
\* current_age on, with
\* year_index = age - current_age.
C3_OneRecordPerAge ==
    (HasConfig /\ pc \in {"done", "raised"} /\ WellFormed(config)) =>
        /\ Len(rows) = config.end_age - config.current_age + 1
        /\ \A i \in 1..Len(rows) :
              /\ rows[i].age = config.current_age + i - 1
              /\ rows[i].year_index = rows[i].age - config.current_age

\* C5: withdrawal order law.  In a retirement year the withdrawal is
\* (post-growth 401k + post-growth brokerage) * swr; under brokerage_first the
\* brokerage gives min(withdrawal_total, post-growth brokerage) and the 401k
\* the remainder; under tax_deferred_first the 401k gives
\* min(withdrawal_total, post-growth 401k) and the brokerage the remainder.
C5_WithdrawalOrderLaw ==
    InRetirementYear =>
        /\ withdrawal_total = RMul(RAdd(post_growth_401k, post_growth_brokerage), config.swr)
        /\ config.withdrawal_order = "brokerage_first" =>
              /\ withdrawal_brokerage = RMin(withdrawal_total, post_growth_brokerage)
              /\ withdrawal_401k = RSub(withdrawal_total, withdrawal_brokerage)
        /\ config.withdrawal_order = "tax_deferred_first" =>
              /\ withdrawal_401k = RMin(withdrawal_total, post_growth_401k)
              /\ withdrawal_brokerage = RSub(withdrawal_total, withdrawal_401k)

C5_Witness ==
    /\ InRetirementYear
    /\ RLt(Zero, post_growth_401k)
    /\ RLt(Zero, post_growth_brokerage)
    /\ RLt(Zero, withdrawal_total)
    /\ config.withdrawal_order = "brokerage_first"
    /\ Spillover

BalanceBefore(i, field, start) == IF i = 1 THEN start ELSE rows[i - 1][field]

\* C7: a record of an age before retire_age has zero withdrawals, Social
\* Security, taxes, effective rate and net income, also at 62 and older, and
\* its balances are (previous balance + contribution) * (1 + real_return).
C7_AccumulationRecord ==
    \A i \in 1..Len(rows) :
        rows[i].age < config.retire_age =>
            /\ rows[i].withdrawal_total = Zero
            /\ rows[i].withdrawal_401k = Zero
            /\ rows[i].withdrawal_brokerage = Zero
            /\ rows[i].social_security_income = Zero
            /\ rows[i].tax_total = Zero
            /\ rows[i].federal_tax = Zero
            /\ rows[i].state_tax = Zero
            /\ rows[i].tax_effective_rate = Zero
            /\ rows[i].net_income_after_tax = Zero
            /\ rows[i].balance_401k =
                  RMul(RAdd(BalanceBefore(i, "balance_401k", config.current_401k_balance),
                            config.annual_401k_contribution),
                       RAdd(One, config.real_return_401k))
            /\ rows[i].balance_brokerage =
                  RMul(RAdd(BalanceBefore(i, "balance_brokerage",
                                          config.current_brokerage_balance),
                            config.annual_brokerage_contribution),
                       RAdd(One, config.real_return_brokerage))

C7_Witness ==
    /\ Len(rows) >= 3
    /\ rows[Len(rows)].age > SOCIAL_SECURITY_AGE
    /\ rows[Len(rows)].age < config.retire_age
    /\ RLt(Zero, config.annual_401k_contribution)
    /\ RLt(Zero, rows[Len(rows)].balance_401k)
    /\ RLt(Zero, rows[Len(rows)].balance_brokerage)

\* C10: a config built with social_security_start_age is accepted.
C10_StartAgeAccepted ==
    (pc # "new" /\ "social_security_start_age" \in DOMAIN kwargs) =>
        err # "TypeError: ProjectionConfig"

(***************************************************************************)
(* Properties of the tax estimator (checked under SpecTax).                *)
(***************************************************************************)
TotalIncome(t) == RAdd(t.ordinary_income, t.capital_gains_income)

Deduction(t) == IF t.filing_status = "married" THEN RInt(29200) ELSE RInt(14600)

\* C4 as stated: total_income <= 0 gives effective_rate == 0 and total_tax == 0.
C4_NoTaxWithoutIncome ==
    (pc = "tax_out" /\ RLeq(TotalIncome(ti), Zero)) =>
        tr.effective_rate = Zero /\ tr.total_tax = Zero

\* C4 as amended: total_income <= 0 gives effective_rate == 0 and
\* state_tax == 0, and total_tax == 0 exactly when ordinary_income is at most
\* the standard deduction and capital_gains_income <= 0.
C4_NoTaxWithoutIncome_Amended ==
    (pc = "tax_out" /\ RLeq(TotalIncome(ti), Zero)) =>
        /\ tr.effective_rate = Zero
        /\ tr.state_tax = Zero
        /\ tr.total_tax = Zero <=>
              (RLeq(ti.ordinary_income, Deduction(ti)) /\ RLeq(ti.capital_gains_income, Zero))

C4_Witness ==
    /\ pc = "tax_out"
    /\ RLt(TotalIncome(ti), Zero)
    /\ RLt(Zero, ti.ordinary_income)
    /\ RLt(Zero, ti.state_rate)
    /\ tr.total_tax = Zero

\* C8: of two inputs that agree on filing_status, state_rate and
\* capital_gains_income, the one with the larger ordinary_income owes at least
\* as much total_tax.
C8_Monotone ==
    (pc = "tax_out" /\ ti_prev.filing_status # "None") =>
        /\ ti_prev.filing_status = ti.filing_status
        /\ ti_prev.state_rate = ti.state_rate
        /\ ti_prev.capital_gains_income = ti.capital_gains_income
        /\ RLeq(ti_prev.ordinary_income, ti.ordinary_income) =>
              RLeq(tr_prev.total_tax, tr.total_tax)
        /\ RLeq(ti.ordinary_income, ti_prev.ordinary_income) =>
              RLeq(tr.total_tax, tr_prev.total_tax)

C8_Witness ==
    /\ pc = "tax_out"
    /\ ti_prev.filing_status # "None"
    /\ RLt(ti.capital_gains_income, Zero)
    /\ RLt(Zero, ti.state_rate)
    /\ RLt(TotalIncome(ti_prev), Zero)
    /\ RLt(Zero, TotalIncome(ti))
    /\ RLt(ti_prev.ordinary_income, Deduction(ti))
    /\ RLt(tr_prev.total_tax, tr.total_tax)

\* the band of bracket i: from its threshold to the next one, the last open
BandLow(table, i) == table[i][1]
BandTaxed(table, i, taxable) ==
    IF i < Len(table)
    THEN RMax(Zero, RSub(RMin(taxable, table[i + 1][1]), BandLow(table, i)))
    ELSE RMax(Zero, RSub(taxable, BandLow(table, i)))

RECURSIVE MarginalSum(_, _, _)
MarginalSum(table, n, taxable) ==
    IF n = 0 THEN Zero
    ELSE RAdd(MarginalSum(table, n - 1, taxable),
              RMul(BandTaxed(table, n, taxable), table[n][2]))

ExampleInput ==
    [filing_status |-> "single", state_rate |-> Zero,
     ordinary_income |-> RInt(60000), capital_gains_income |-> Zero]

\* C9: for single and married filers the federal ordinary tax is the sum over
\* the brackets of the income inside each band times the band's rate, on
\* taxable = max(0, ordinary_income - standard deduction); a single filer with
\* ordinary_income 60000 and nothing else has taxable 45400 and owes 5216.
C9_MarginalBrackets ==
    (pc = "tax_out" /\ ti.filing_status \in {"single", "married"}) =>
        LET table == IF ti.filing_status = "married" THEN FEDERAL_BRACKETS_MARRIED
                     ELSE FEDERAL_BRACKETS_SINGLE
            taxable == RMax(Zero, RSub(ti.ordinary_income, Deduction(ti)))
        IN  /\ tr.ordinary_income_taxed = taxable
            /\ RSub(tr.federal_tax, RMul(RMax(Zero, ti.capital_gains_income), Rat(15, 100)))
                  = MarginalSum(table, Len(table), taxable)
            /\ ti = ExampleInput =>
                  tr.ordinary_income_taxed = RInt(45400) /\ tr.total_tax = RInt(5216)

C9_Witness == pc = "tax_out" /\ ti = ExampleInput /\ tr.federal_tax = RInt(5216)

====
